---- MODULE Spec2Model ----
(***************************************************************************)
(* The WebSocket frame parser and formatter of src/src/WebSocketProtocol.h *)
(* (server role: WebSocketProtocol<true, Impl> over WebSocketState<true>). *)
(*                                                                         *)
(* A peer's frames are put on the wire as one byte stream; the transport   *)
(* hands the stream to consume() in chunks of any size.  One Consume step  *)
(* is one whole consume() call.  The callbacks of Impl are recorded in the *)
(* history variable calls, in call order.                                  *)
(*                                                                         *)
(* Bytes are the integers 0..255.  unsigned int and uint64_t values are    *)
(* kept as little-endian sequences of 16-bit limbs (two and four limbs),   *)
(* so that every addition and subtraction wraps exactly as the C types do. *)
(***************************************************************************)
EXTENDS Integers, Sequences, FiniteSets, TLC

VARIABLES
    wantsHead,       \* state.wantsHead
    spillLength,     \* state.spillLength (4 bits)
    spill,           \* state.spill[0 .. spillLength): the bytes consume() copies back
    opStack,         \* state.opStack (2 bits, signed)
    opCode,          \* state.opCode[2]
    lastFin,         \* state.lastFin
    remainingBytes,  \* unsigned int, two limbs
    mask,            \* char mask[4]
    wire,            \* bytes sent by the peer and not yet handed to consume()
    frames,          \* history: the frames the peer put on the wire
    calls,           \* history: callbacks made and parse points passed, in order
    aborts,          \* history: number of handleFragment calls that returned true
    crashed,         \* a consume() call ran the unmasker over ~4 GiB of memory
    maxPayload,      \* Impl: the payload limit of refusePayloadLength (limbs)
    compression,     \* Impl: what setCompressed answers
    call,            \* a call of a function of namespace protocol: its arguments
    returned         \* history: what the functions called with them returned

vars == <<wantsHead, spillLength, spill, opStack, opCode, lastFin,
          remainingBytes, mask, wire, frames, calls, aborts, crashed,
          maxPayload, compression, call, returned>>

----------------------------------------------------------------------------
(* Bounds of the model *)

\* frames in a conversation
MaxFrames == 3
\* handleFragment calls that return true in a conversation
MaxAborts == 1
\* frames in a conversation in which handleFragment may return true
MaxAbortFrames == 2
\* the handleFragment call of one consume() that may return true
MaxAbortAt == 2

----------------------------------------------------------------------------
(* Program constants *)

CONTINUATION == 0
TEXT == 1
BINARY == 2
CLOSE == 8
PING == 9
PONG == 10

SHORT_MESSAGE_HEADER == 6
MEDIUM_MESSAGE_HEADER == 8
LONG_MESSAGE_HEADER == 14

ERR_TOO_BIG_MESSAGE == "Received too big message"
ERR_PROTOCOL == "Received invalid WebSocket frame"

UINT16_MAX == 65535
LIBUS_RECV_BUFFER_LENGTH == 524288

\* opCode[] slots are not initialised by State()
Uninit == 255

----------------------------------------------------------------------------
(* Fixed-width unsigned arithmetic on limbs (base 2^16, least limb first) *)

Base == 2 ^ 16

Wide(n, k) == [i \in 1..k |-> IF i = 1 THEN n % Base ELSE IF i = 2 THEN n \div Base ELSE 0]
U32(n) == Wide(n, 2)
U64(n) == Wide(n, 4)

RECURSIVE CarryInto(_, _, _, _)
\* the carry into limb i of a + b + c0
CarryInto(a, b, c0, i) ==
    IF i = 1 THEN c0
    ELSE (a[i-1] + b[i-1] + CarryInto(a, b, c0, i-1)) \div Base

WAdd(a, b) == [i \in 1..Len(a) |-> (a[i] + b[i] + CarryInto(a, b, 0, i)) % Base]
WNot(a) == [i \in 1..Len(a) |-> Base - 1 - a[i]]
WSub(a, b) == [i \in 1..Len(a) |-> (a[i] + WNot(b)[i] + CarryInto(a, WNot(b), 1, i)) % Base]
\* a <= b: b - a does not borrow
WLe(a, b) == CarryInto(b, WNot(a), 1, Len(a) + 1) = 1
WExtend(a, k) == [i \in 1..k |-> IF i <= Len(a) THEN a[i] ELSE 0]
\* (unsigned int) of a uint64_t
Trunc32(a) == SubSeq(a, 1, 2)
IsSmall(a) == a[2] < 16384 /\ \A i \in 3..Len(a) : a[i] = 0
ToNat(a) == a[1] + a[2] * Base

----------------------------------------------------------------------------
(* Bytes *)

Bit(a, k) == (a \div (2 ^ k)) % 2
XorBit(a, b, k) == ((Bit(a, k) + Bit(b, k)) % 2) * (2 ^ k)
\* a ^ b on unsigned chars, bit by bit
XorBits(a, b) ==
    XorBit(a, b, 0) + XorBit(a, b, 1) + XorBit(a, b, 2) + XorBit(a, b, 3) +
    XorBit(a, b, 4) + XorBit(a, b, 5) + XorBit(a, b, 6) + XorBit(a, b, 7)
\* the same, computed once for every pair of bytes
XorTable == [a \in 0..255 |-> [b \in 0..255 |-> XorBits(a, b)]]
Xor(a, b) == XorTable[a][b]

Reverse(s) == [i \in 1..Len(s) |-> s[Len(s) + 1 - i]]

\* memcpy(&val, c, sizeof(T)): the object representation, in memory order
bit_cast(buf, p, size) == SubSeq(buf, p + 1, p + size)
\* the little-endian host reverses the representation
cond_byte_swap(rep) == Reverse(rep)
\* the value of a little-endian object representation of 2 or 8 bytes
ValueOf(rep) == [i \in 1..4 |-> IF 2 * i <= Len(rep) THEN rep[2*i - 1] + 256 * rep[2*i] ELSE 0]
\* the object representation of a value, sizeof = size
RepOf(w, size) == [i \in 1..size |-> IF i % 2 = 1 THEN w[(i + 1) \div 2] % 256 ELSE w[i \div 2] \div 256]

isFin(b0) == (b0 \div 128) % 2 = 1
getOpCode(b0) == b0 % 16
payloadLength(b1) == b1 % 128
rsv23(b0) == (b0 \div 16) % 4 # 0
rsv1(b0) == (b0 \div 64) % 2 = 1

----------------------------------------------------------------------------
(* The unmask routines.  buf is the memory from the (moved back) src of   *)
(* consume() to the end of the chunk, p the offset in it of the routine's *)
(* src argument.  Bytes outside buf are padding: they read as Pad, and    *)
(* what is written there is dropped.                                      *)

Pad == 256
Rd(buf, i) == IF i >= 1 /\ i <= Len(buf) THEN buf[i] ELSE Pad
XorB(a, b) == IF a = Pad \/ b = Pad THEN Pad ELSE Xor(a, b)

\* n blocks of BLOCK bytes are loaded at src, xored, stored at src - DESTINATION
unmaskBlocks(BLOCK, DESTINATION, buf, p, m, n) ==
    [i \in 1..Len(buf) |->
        LET r == (i - 1) + DESTINATION - p
        IN  IF r >= 0 /\ r < BLOCK * n
            THEN XorB(Rd(buf, i + DESTINATION), m[(r % BLOCK) + 1])
            ELSE buf[i]]

unmaskImprecise8(DESTINATION, buf, p, m, length) ==
    unmaskBlocks(8, DESTINATION, buf, p, m, (length \div 8) + 1)

unmaskImprecise4(DESTINATION, buf, p, m, length) ==
    unmaskBlocks(4, DESTINATION, buf, p, m, (length \div 4) + 1)

unmaskImpreciseCopyMask(HEADER_SIZE, buf, p, length) ==
    LET m4 == SubSeq(buf, p - 3, p)
    IN  IF HEADER_SIZE # 6
        THEN unmaskImprecise8(HEADER_SIZE, buf, p, m4 \o m4, length)
        ELSE unmaskImprecise4(HEADER_SIZE, buf, p, m4, length)

\* Mutation of rotateMask: the mask is left as it is
rotateMask_unrotated(offset, m) == m

rotateMask(offset, m) ==
    [j \in 1..4 |-> m[(CHOOSE i \in 0..3 : (i + offset) % 4 = j - 1) + 1]]

\* while (data < stop): four bytes a round
unmaskInplace(buf, p, stop, m) ==
    LET rounds == IF stop > p THEN ((stop - p) + 3) \div 4 ELSE 0
    IN  unmaskBlocks(4, 0, buf, p, m, rounds)

\* UnrolledXor<16> over the whole receive buffer
unmaskAll(buf, p, m) ==
    unmaskBlocks(4, 0, buf, p, m, LIBUS_RECV_BUFFER_LENGTH \div 4)

\* one past the last byte the imprecise routines load: (length / BLOCK) + 1
\* blocks from src on
ImpreciseEnd(BLOCK, p, length) == p + BLOCK * ((length \div BLOCK) + 1)

Max(a, b) == IF a >= b THEN a ELSE b

\* a length the unmasker is given when payLength + MESSAGE_HEADER wrapped is
\* (unsigned int) payLength >= 2^32 - 14: more than this many bytes
Far == 2 ^ 30

\* A run of consume() has read or written memory up to offset to (not
\* included) of buf, where the payload bytes it was unmasking end at offset
\* end.  high counts the bytes behind src + length, past the bytes behind
\* the payload that is in the buffer.
Touch(R, to, end) ==
    [R EXCEPT !.high = Max(@, to - Len(R.buf)),
              !.past = Max(@, to - end)]

----------------------------------------------------------------------------
(* The parser state, as one record *)

State ==
    [wantsHead |-> wantsHead, spillLength |-> spillLength, spill |-> spill,
     opStack |-> opStack, opCode |-> opCode, lastFin |-> lastFin,
     remainingBytes |-> remainingBytes, mask |-> mask]

\* WebSocketState(): State() and the member initialisers
InitialState ==
    [wantsHead |-> TRUE, spillLength |-> 0, spill |-> <<>>,
     opStack |-> -1, opCode |-> <<Uninit, Uninit>>, lastFin |-> TRUE,
     remainingBytes |-> U32(0), mask |-> <<0, 0, 0, 0>>]

\* ++ and -- on the 2-bit signed bit-field
Inc2(x) == IF x = 1 THEN -2 ELSE x + 1
Dec2(x) == IF x = -2 THEN 1 ELSE x - 1

\* opCode[opStack]; an index outside the array reads no slot of it
TopOp(st) == IF st.opStack \in {0, 1} THEN st.opCode[st.opStack + 1] ELSE Uninit

----------------------------------------------------------------------------
(* Callbacks and parse points.  Every entry of calls has the same fields: *)
(*   kind      "header"  the parsing loop looks at a header (b0, b1)      *)
(*             "frame"   consumeMessage is entered for a complete header  *)
(*             "setCompressed", "refusePayloadLength", "handleFragment",  *)
(*             "forceClose": the callbacks of Impl                         *)
(*   op, fin   handleFragment's opCode and fin; the wire's for a header   *)
(*   data      handleFragment's bytes; <<b0, b1>> for a header            *)
(*   length    the length argument (four limbs)                            *)
(*   remaining handleFragment's remaining bytes (two limbs)                *)
(*   ret       what the callback returned                                  *)
(*   reason    forceClose's reason                                         *)
(*   st        the state the callback is handed (wState), but for the spill *)
(* A "frame" entry holds in remaining the bytes of the frame that are in  *)
(* the buffer, a "forceClose" entry holds in data the buffer from src on, *)
(* as consume() leaves it.                                                *)

Snapshot(st) ==
    [wantsHead |-> st.wantsHead, opStack |-> st.opStack, opCode |-> st.opCode,
     lastFin |-> st.lastFin, remainingBytes |-> st.remainingBytes, mask |-> st.mask]

Event(kind, op, fin, data, length, remaining, ret, reason, st) ==
    [kind |-> kind, op |-> op, fin |-> fin, data |-> data, length |-> length,
     remaining |-> remaining, ret |-> ret, reason |-> reason, st |-> Snapshot(st)]

\* A run of consume(): st the state, buf the memory from src on, off the
\* offset of src in it, length the bytes left, log what was called so far,
\* nh the handleFragment calls so far, abortAt the one that returns true,
\* crashed whether the run died, seen the state as the last handleFragment
\* call was handed it (wState, the spill included).
Log(R, e) == [R EXCEPT !.log = Append(R.log, e)]

\* Impl::setCompressed
setCompressed(R, answer) ==
    Log(R, Event("setCompressed", 0, FALSE, <<>>, U64(0), U32(0), answer, "", R.st))

\* Impl::refusePayloadLength
refusePayloadLength(payLength, limit) == ~WLe(payLength, limit)

\* Impl::forceClose
forceClose(R, reason) ==
    Log(R, Event("forceClose", 0, FALSE, SubSeq(R.buf, R.off + 1, R.off + R.length),
                 U64(0), U32(0), FALSE, reason, R.st))

\* Impl::handleFragment: the abortAt-th call of the run returns true
handleFragmentReturns(R) == R.nh + 1 = R.abortAt

handleFragment(R, data, length, remaining, op, fin) ==
    [Log(R, Event("handleFragment", op, fin, data, length, remaining,
                  handleFragmentReturns(R), "", R.st))
        EXCEPT !.nh = R.nh + 1, !.seen = R.st]

Result(ret, R) == [ret |-> ret, R |-> R]

----------------------------------------------------------------------------
(* consumeMessage<MESSAGE_HEADER, T>.  payLength is held in four limbs for *)
(* every T: for uint8_t and uint16_t no sum below reaches 2^32, for        *)
(* uint64_t the sums wrap at 2^64, as four limbs do.                       *)

\* Mutation of StackRefuses: a Continuation is let pass with an empty stack
StackRefuses_noContinuationCheck(st, b0) ==
    getOpCode(b0) # 0 /\ (st.opStack = 1 \/ (~st.lastFin /\ getOpCode(b0) < 2))

\* Mutation of StackRefuses: a full stack is pushed on
StackRefuses_fullStackPushed(st, b0) ==
    IF getOpCode(b0) # 0
    THEN ~st.lastFin /\ getOpCode(b0) < 2
    ELSE st.opStack = -1

\* the opcode-stack checks and the push of a non-continuation opcode
StackRefuses(st, b0) ==
    IF getOpCode(b0) # 0
    THEN st.opStack = 1 \/ (~st.lastFin /\ getOpCode(b0) < 2)
    ELSE st.opStack = -1

\* Mutation of Pushed: the opcode of a Continuation is pushed as well
Pushed_continuationToo(st, b0) ==
    [st EXCEPT !.opStack = Inc2(st.opStack),
               !.opCode = IF Inc2(st.opStack) \in {0, 1}
                          THEN [st.opCode EXCEPT ![Inc2(st.opStack) + 1] = getOpCode(b0)]
                          ELSE st.opCode]

Pushed(st, b0) ==
    IF getOpCode(b0) # 0
    THEN [st EXCEPT !.opStack = Inc2(st.opStack),
                    !.opCode = IF Inc2(st.opStack) \in {0, 1}
                               THEN [st.opCode EXCEPT ![Inc2(st.opStack) + 1] = getOpCode(b0)]
                               ELSE st.opCode]
    ELSE st

\* Mutation of FrameIsComplete: the header is not counted
FrameIsComplete_withoutHeader(MESSAGE_HEADER, payLength, length) ==
    WLe(payLength, U64(length))

\* payLength + MESSAGE_HEADER <= length
FrameIsComplete(MESSAGE_HEADER, payLength, length) ==
    WLe(WAdd(payLength, U64(MESSAGE_HEADER)), U64(length))

\* Mutation of Stepped: the opcode of a frame with FIN stays on the stack
Stepped_withoutPop(MESSAGE_HEADER, n, fin, R1) ==
    [R1 EXCEPT !.st.spillLength = 0,
               !.st.spill = <<>>,
               !.off = @ + n + MESSAGE_HEADER,
               !.length = @ - (n + MESSAGE_HEADER)]

\* Mutation of Stepped: spillLength is left as it is
Stepped_spillKept(MESSAGE_HEADER, n, fin, R1) ==
    [R1 EXCEPT !.st.opStack = IF fin THEN Dec2(@) ELSE @,
               !.off = @ + n + MESSAGE_HEADER,
               !.length = @ - (n + MESSAGE_HEADER)]

\* after the delivery of a whole frame: pop on FIN, step over the frame
Stepped(MESSAGE_HEADER, n, fin, R1) ==
    [R1 EXCEPT !.st.opStack = IF fin THEN Dec2(@) ELSE @,
               !.st.spillLength = 0,
               !.st.spill = <<>>,
               !.off = @ + n + MESSAGE_HEADER,
               !.length = @ - (n + MESSAGE_HEADER)]

\* Mutation of consumeWhole: what handleFragment returns is not looked at
consumeWhole_ignoringReturn(MESSAGE_HEADER, payLength, R) ==
    LET b0 == R.buf[R.off + 1]
        fin == isFin(b0)
    IN  IF ~IsSmall(payLength)
        THEN Result(TRUE, [R EXCEPT !.crashed = TRUE])
        ELSE
        LET n == ToNat(payLength)
            unmasked == unmaskImpreciseCopyMask(MESSAGE_HEADER, R.buf,
                                                R.off + MESSAGE_HEADER, n)
            R1 == handleFragment([R EXCEPT !.buf = unmasked],
                                 SubSeq(unmasked, R.off + 1, R.off + n),
                                 payLength, U32(0), TopOp(R.st), fin)
        IN  Result(FALSE, Stepped(MESSAGE_HEADER, n, fin, R1))

\* the whole frame is in the buffer: unmask, deliver, pop, step over it
consumeWhole(MESSAGE_HEADER, payLength, R) ==
    LET b0 == R.buf[R.off + 1]
        fin == isFin(b0)
        block == IF MESSAGE_HEADER # 6 THEN 8 ELSE 4
        p == R.off + MESSAGE_HEADER
    IN  IF ~IsSmall(payLength)
        \* payLength + MESSAGE_HEADER wrapped: the unmasker is run over
        \* (unsigned int) payLength >= 2^32 - 14 bytes from a far shorter buffer
        THEN Result(TRUE, [Touch(R, ImpreciseEnd(block, p, Far), p)
                              EXCEPT !.crashed = TRUE])
        ELSE
        LET n == ToNat(payLength)
            unmasked == unmaskImpreciseCopyMask(MESSAGE_HEADER, R.buf, p, n)
            R1 == handleFragment([Touch(R, ImpreciseEnd(block, p, n), p + n)
                                     EXCEPT !.buf = unmasked],
                                 SubSeq(unmasked, R.off + 1, R.off + n),
                                 payLength, U32(0), TopOp(R.st), fin)
        IN  IF handleFragmentReturns(R)
            THEN Result(TRUE, R1)
            ELSE Result(FALSE, Stepped(MESSAGE_HEADER, n, fin, R1))

\* the payload goes on in later chunks: deliver what is here
consumePart(MESSAGE_HEADER, payLength, R) ==
    LET b0 == R.buf[R.off + 1]
        fin == isFin(b0)
        p == R.off + MESSAGE_HEADER
        m4 == SubSeq(R.buf, p - 3, p)
        rest == Trunc32(WAdd(WSub(payLength, U64(R.length)), U64(MESSAGE_HEADER)))
        unmasked == unmaskImprecise8(0, R.buf, p, m4 \o m4, R.length)
        st1 == [R.st EXCEPT !.spillLength = 0,
                            !.spill = <<>>,
                            !.wantsHead = FALSE,
                            !.remainingBytes = rest,
                            !.mask = rotateMask(4 - ((R.length - MESSAGE_HEADER) % 4), m4)]
    IN  Result(TRUE,
               handleFragment([Touch(R, ImpreciseEnd(8, p, R.length), R.off + R.length)
                                  EXCEPT !.st = st1, !.buf = unmasked],
                              SubSeq(unmasked, p + 1, R.off + R.length),
                              U64(R.length - MESSAGE_HEADER), rest, TopOp(st1), fin))

\* the length is within the limit: deliver the frame, or what is there of it
Deliver(MESSAGE_HEADER, payLength, R1) ==
    IF FrameIsComplete(MESSAGE_HEADER, payLength, R1.length)
    THEN consumeWhole(MESSAGE_HEADER, payLength, R1)
    ELSE consumePart(MESSAGE_HEADER, payLength, R1)

\* Mutation of Refuse: the answer of refusePayloadLength is not acted on
Refuse_ignored(MESSAGE_HEADER, payLength, R1) ==
    Deliver(MESSAGE_HEADER, payLength, R1)

\* Mutation of Refuse: consumeMessage goes on after its forceClose
Refuse_withoutReturn(MESSAGE_HEADER, payLength, R1) ==
    Deliver(MESSAGE_HEADER, payLength, forceClose(R1, ERR_TOO_BIG_MESSAGE))

\* refusePayloadLength returned true
Refuse(MESSAGE_HEADER, payLength, R1) ==
    Result(TRUE, forceClose(R1, ERR_TOO_BIG_MESSAGE))

\* the bytes of the frame at src that are in the buffer
Available(MESSAGE_HEADER, payLength, R) ==
    IF IsSmall(payLength) /\ ToNat(payLength) + MESSAGE_HEADER < R.length
    THEN ToNat(payLength) + MESSAGE_HEADER
    ELSE R.length

consumeMessage(MESSAGE_HEADER, payLength, R0) ==
    LET b0 == R0.buf[R0.off + 1]
        R == Log(R0, Event("frame", getOpCode(b0), isFin(b0),
                           <<b0, R0.buf[R0.off + 2]>>, payLength,
                           U32(Available(MESSAGE_HEADER, payLength, R0)), FALSE, "", R0.st))
    IN  IF StackRefuses(R.st, b0)
        THEN Result(TRUE, forceClose(R, ERR_PROTOCOL))
        ELSE
        LET st1 == [Pushed(R.st, b0) EXCEPT !.lastFin = isFin(b0)]
            refuses == refusePayloadLength(payLength, R.limit)
            R1 == Log([R EXCEPT !.st = st1],
                      Event("refusePayloadLength", 0, FALSE, <<>>, payLength, U32(0),
                            refuses, "", st1))
        IN  IF refuses
            THEN Refuse(MESSAGE_HEADER, payLength, R1)
            ELSE Deliver(MESSAGE_HEADER, payLength, R1)

----------------------------------------------------------------------------
(* consumeContinuation: the chunk goes on with the payload of a frame     *)

\* Mutation of continuationEnds: remainingBytes is set to 0 with wantsHead
continuationEnds_resetting(R) ==
    LET rb == ToNat(R.st.remainingBytes)
        n == rb \div 4
        lanes == unmaskInplace(R.buf, R.off, R.off + n * 4, R.st.mask)
        unmasked == [i \in 1..Len(lanes) |->
                        LET r == (i - 1) - (R.off + n * 4)
                        IN  IF r >= 0 /\ r < rb % 4
                            THEN XorB(lanes[i], R.st.mask[r + 1])
                            ELSE lanes[i]]
        R1 == handleFragment([R EXCEPT !.buf = unmasked],
                             SubSeq(unmasked, R.off + 1, R.off + rb),
                             U64(rb), U32(0), TopOp(R.st), R.st.lastFin)
    IN  IF handleFragmentReturns(R)
        THEN Result(FALSE, R1)
        ELSE Result(TRUE,
               [R1 EXCEPT !.st.opStack = IF R.st.lastFin THEN Dec2(@) ELSE @,
                          !.st.wantsHead = TRUE,
                          !.st.remainingBytes = U32(0),
                          !.off = @ + rb,
                          !.length = @ - rb])

\* the frame ends in this chunk
continuationEnds(R) ==
    LET rb == ToNat(R.st.remainingBytes)
        n == rb \div 4
        lanes == unmaskInplace(R.buf, R.off, R.off + n * 4, R.st.mask)
        unmasked == [i \in 1..Len(lanes) |->
                        LET r == (i - 1) - (R.off + n * 4)
                        IN  IF r >= 0 /\ r < rb % 4
                            THEN XorB(lanes[i], R.st.mask[r + 1])
                            ELSE lanes[i]]
        R1 == handleFragment([Touch(R, R.off + rb, R.off + rb) EXCEPT !.buf = unmasked],
                             SubSeq(unmasked, R.off + 1, R.off + rb),
                             U64(rb), U32(0), TopOp(R.st), R.st.lastFin)
    IN  IF handleFragmentReturns(R)
        THEN Result(FALSE, R1)
        ELSE Result(TRUE,
               [R1 EXCEPT !.st.opStack = IF R.st.lastFin THEN Dec2(@) ELSE @,
                          !.st.wantsHead = TRUE,
                          !.off = @ + rb,
                          !.length = @ - rb])

\* Mutation of continuationGoesOn: the mask is rotated whatever
\* handleFragment returns
continuationGoesOn_rotatingAnyway(R) ==
    LET unmasked ==
            IF R.st.mask # <<0, 0, 0, 0>>
            THEN IF LIBUS_RECV_BUFFER_LENGTH = R.length
                 THEN unmaskAll(R.buf, R.off, R.st.mask)
                 ELSE unmaskInplace(R.buf, R.off,
                                    R.off + ((R.length \div 4) + 1) * 4, R.st.mask)
            ELSE R.buf
        rest == WSub(R.st.remainingBytes, U32(R.length))
        R1 == handleFragment([R EXCEPT !.buf = unmasked, !.st.remainingBytes = rest],
                             SubSeq(unmasked, R.off + 1, R.off + R.length),
                             U64(R.length), rest, TopOp(R.st), R.st.lastFin)
    IN  Result(FALSE,
               IF R.length % 4 # 0
               THEN [R1 EXCEPT !.st.mask = rotateMask(4 - (R.length % 4), @)]
               ELSE R1)

\* the frame goes on after this chunk
continuationGoesOn(R) ==
    LET unmasked ==
            IF R.st.mask # <<0, 0, 0, 0>>
            THEN IF LIBUS_RECV_BUFFER_LENGTH = R.length
                 THEN unmaskAll(R.buf, R.off, R.st.mask)
                 ELSE unmaskInplace(R.buf, R.off,
                                    R.off + ((R.length \div 4) + 1) * 4, R.st.mask)
            ELSE R.buf
        to == IF R.st.mask = <<0, 0, 0, 0>>
              THEN R.off
              ELSE IF LIBUS_RECV_BUFFER_LENGTH = R.length
              THEN R.off + LIBUS_RECV_BUFFER_LENGTH
              ELSE R.off + ((R.length \div 4) + 1) * 4
        rest == WSub(R.st.remainingBytes, U32(R.length))
        R1 == handleFragment([Touch(R, to, R.off + R.length)
                                 EXCEPT !.buf = unmasked, !.st.remainingBytes = rest],
                             SubSeq(unmasked, R.off + 1, R.off + R.length),
                             U64(R.length), rest, TopOp(R.st), R.st.lastFin)
    IN  IF handleFragmentReturns(R)
        THEN Result(FALSE, R1)
        ELSE Result(FALSE,
               IF R.length % 4 # 0
               THEN [R1 EXCEPT !.st.mask = rotateMask(4 - (R.length % 4), @)]
               ELSE R1)

consumeContinuation(R) ==
    IF WLe(R.st.remainingBytes, U32(R.length))
    THEN continuationEnds(R)
    ELSE continuationGoesOn(R)

----------------------------------------------------------------------------
(* consume *)

\* Mutation of InvalidHeader: a control frame may come without FIN
InvalidHeader_withoutFinCheck(b0, b1, compressed) ==
    \/ (rsv1(b0) /\ ~compressed)
    \/ rsv23(b0)
    \/ (getOpCode(b0) > 2 /\ getOpCode(b0) < 8)
    \/ getOpCode(b0) > 10
    \/ (getOpCode(b0) > 2 /\ payloadLength(b1) > 125)

\* invalid reserved bits / invalid opcodes / invalid control frames
InvalidHeader(b0, b1, compressed) ==
    \/ (rsv1(b0) /\ ~compressed)
    \/ rsv23(b0)
    \/ (getOpCode(b0) > 2 /\ getOpCode(b0) < 8)
    \/ getOpCode(b0) > 10
    \/ (getOpCode(b0) > 2 /\ (~isFin(b0) \/ payloadLength(b1) > 125))

\* Mutation of Spilled: the bytes left over are not kept
Spilled_nothingKept(R) == R

\* if (length) { memcpy(spill, src, length); spillLength = length & 0xf; }
Spilled(R) ==
    IF R.length # 0
    THEN [R EXCEPT !.st.spill = SubSeq(R.buf, R.off + 1, R.off + R.length),
                   !.st.spillLength = R.length % 16]
    ELSE R

RECURSIVE parseNext(_)
\* the loop at parseNext, and the spill after it.  A look at a header is
\* recorded when the loop goes on to judge the frame, not when it leaves the
\* header for the next chunk.
parseNext(R0) ==
    IF R0.length < SHORT_MESSAGE_HEADER
    THEN Spilled(R0)
    ELSE
    LET b0 == R0.buf[R0.off + 1]
        b1 == R0.buf[R0.off + 2]
        header == Event("header", getOpCode(b0), isFin(b0), <<b0, b1>>,
                        U64(0), U32(0), FALSE, "", R0.st)
        Rc == IF rsv1(b0) THEN setCompressed(R0, R0.compress) ELSE R0
        R == IF rsv1(b0) THEN setCompressed(Log(R0, header), R0.compress)
                         ELSE Log(R0, header)
    IN  IF InvalidHeader(b0, b1, R.compress)
        THEN forceClose(R, ERR_PROTOCOL)
        ELSE IF payloadLength(b1) < 126
        THEN LET c == consumeMessage(SHORT_MESSAGE_HEADER, U64(payloadLength(b1)), R)
             IN  IF c.ret THEN c.R ELSE parseNext(c.R)
        ELSE IF payloadLength(b1) = 126
        THEN IF R.length < MEDIUM_MESSAGE_HEADER
             THEN Spilled(Rc)
             ELSE LET c == consumeMessage(MEDIUM_MESSAGE_HEADER,
                              ValueOf(cond_byte_swap(bit_cast(R.buf, R.off + 2, 2))), R)
                  IN  IF c.ret THEN c.R ELSE parseNext(c.R)
        ELSE IF R.length < LONG_MESSAGE_HEADER
             THEN Spilled(Rc)
             ELSE LET c == consumeMessage(LONG_MESSAGE_HEADER,
                              ValueOf(cond_byte_swap(bit_cast(R.buf, R.off + 2, 8))), R)
                  IN  IF c.ret THEN c.R ELSE parseNext(c.R)

\* consume(src, length, wState, user) on the state st, the chunk being src
consume(st, chunk, abortAt, limit, compress) ==
    LET R ==
          [st |-> st,
           buf |-> IF st.spillLength # 0
                   THEN SubSeq(st.spill, 1, st.spillLength) \o chunk
                   ELSE chunk,
           off |-> 0,
           length |-> Len(chunk) + st.spillLength,
           log |-> <<>>, nh |-> 0, abortAt |-> abortAt, crashed |-> FALSE,
           limit |-> limit, compress |-> compress,
           low |-> 0 - st.spillLength, high |-> 0, past |-> 0, seen |-> st]
    IN  IF st.wantsHead
        THEN parseNext(R)
        ELSE LET c == consumeContinuation(R)
             IN  IF c.ret THEN parseNext(c.R) ELSE c.R

----------------------------------------------------------------------------
(* The formatter *)

OrBit(a, b, k) == (IF Bit(a, k) + Bit(b, k) > 0 THEN 1 ELSE 0) * (2 ^ k)
\* a | b on unsigned chars
Or(a, b) ==
    OrBit(a, b, 0) + OrBit(a, b, 1) + OrBit(a, b, 2) + OrBit(a, b, 3) +
    OrBit(a, b, 4) + OrBit(a, b, 5) + OrBit(a, b, 6) + OrBit(a, b, 7)

SND_COMPRESSED == 64

\* the bytes formatMessage<isServer> writes to dst; it returns their number.
\* random is the object representation of rand()'s value.
formatMessage(isServer, src, opCode_, reportedLength, compressed, fin, random) ==
    LET lengthBytes ==
            IF WLe(reportedLength, U64(125))
            THEN <<reportedLength[1]>>
            ELSE IF WLe(reportedLength, U64(UINT16_MAX))
            THEN <<126>> \o cond_byte_swap(RepOf(reportedLength, 2))
            ELSE <<127>> \o cond_byte_swap(RepOf(reportedLength, 8))
        b0 == Or(Or(IF fin THEN 128 ELSE 0,
                    IF compressed /\ opCode_ # 0 THEN SND_COMPRESSED ELSE 0),
                 opCode_)
        header == <<b0>> \o lengthBytes
    IN  IF isServer
        THEN header \o src
        ELSE <<b0, Or(lengthBytes[1], 128)>> \o Tail(lengthBytes) \o random
             \o [i \in 1..Len(src) |-> Xor(src[i], random[((i - 1) % 4) + 1])]

----------------------------------------------------------------------------
(* The close payload *)

ERR_INVALID_CLOSE_PAYLOAD == "Received invalid close payload"

\* the while loop over 7-bit bytes: the offset of the first byte from i on
\* with the top bit set, or e
AsciiRun(s, i) ==
    IF \E j \in i..(Len(s) - 1) : s[j + 1] >= 128
    THEN CHOOSE j \in i..(Len(s) - 1) :
            s[j + 1] >= 128 /\ \A k \in i..(j - 1) : s[k + 1] < 128
    ELSE Len(s)

RECURSIVE utf8From(_, _)
\* the for loop of isValidUtf8 with s at offset i of the bytes
utf8From(s, i) ==
    LET e == Len(s)
        j == AsciiRun(s, i)
    IN  IF i = e THEN TRUE
        ELSE IF i + 16 <= e /\ \A k \in 1..16 : s[i + k] < 128
        THEN utf8From(s, i + 16)
        ELSE IF j = e THEN TRUE
        ELSE IF (s[j + 1] \div 32) % 4 = 2
        THEN IF j + 1 >= e \/ s[j + 2] \div 64 # 2 \/ s[j + 1] \div 2 = 96
             THEN FALSE
             ELSE utf8From(s, j + 2)
        ELSE IF s[j + 1] \div 16 = 14
        THEN IF \/ j + 2 >= e
                \/ s[j + 2] \div 64 # 2
                \/ s[j + 3] \div 64 # 2
                \/ (s[j + 1] = 224 /\ s[j + 2] \div 32 = 4)
                \/ (s[j + 1] = 237 /\ s[j + 2] \div 32 = 5)
             THEN FALSE
             ELSE utf8From(s, j + 3)
        ELSE IF s[j + 1] \div 8 = 30
        THEN IF \/ j + 3 >= e
                \/ s[j + 2] \div 64 # 2
                \/ s[j + 3] \div 64 # 2
                \/ s[j + 4] \div 64 # 2
                \/ (s[j + 1] = 240 /\ s[j + 2] \div 16 = 8)
                \/ (s[j + 1] = 244 /\ s[j + 2] > 143)
                \/ s[j + 1] > 244
             THEN FALSE
             ELSE utf8From(s, j + 4)
        ELSE FALSE

isValidUtf8(s) == utf8From(s, 0)

\* a char *: the object it points into and the offset in it
Pointer(base, offset) == [base |-> base, offset |-> offset]
nullptr == Pointer("nullptr", 0)

CloseFrame(code, message, length) == [code |-> code, message |-> message, length |-> length]

\* Mutation of InvalidCloseCode: 1004 .. 1006 are let pass
InvalidCloseCode_without1004to1006(code) ==
    code < 1000 \/ code > 4999 \/ (code > 1011 /\ code < 4000)

\* the codes parseClosePayload rejects
InvalidCloseCode(code) ==
    \/ code < 1000 \/ code > 4999 \/ (code > 1011 /\ code < 4000)
    \/ (code >= 1004 /\ code <= 1006)

\* Mutation of InvalidClosePayload: the length of the payload is reported
InvalidClosePayload_lengthOfPayload(length) ==
    CloseFrame(1006, Pointer(ERR_INVALID_CLOSE_PAYLOAD, 0), length)

\* what parseClosePayload returns for a payload of length bytes it rejects
InvalidClosePayload(length) ==
    CloseFrame(1006, Pointer(ERR_INVALID_CLOSE_PAYLOAD, 0), Len(ERR_INVALID_CLOSE_PAYLOAD))

parseClosePayload(src, length, skipUTF8Validation) ==
    IF length >= 2
    THEN LET code == ValueOf(cond_byte_swap(bit_cast(src, 0, 2)))[1]
             cf == CloseFrame(code, Pointer("src", 2), length - 2)
         IN  IF \/ InvalidCloseCode(cf.code)
                \/ (~skipUTF8Validation /\ ~isValidUtf8(SubSeq(src, 3, length)))
             THEN InvalidClosePayload(length)
             ELSE cf
    ELSE CloseFrame(1005, nullptr, 0)

----------------------------------------------------------------------------
(* The frame size *)

\* Mutation of messageFrameSize: 126 bytes are put in the first bucket
messageFrameSize_shortUpTo126(isServer, messageSize) ==
    IF messageSize <= 126
    THEN (IF isServer THEN 2 ELSE 6) + messageSize
    ELSE IF messageSize <= UINT16_MAX
    THEN (IF isServer THEN 4 ELSE 8) + messageSize
    ELSE (IF isServer THEN 10 ELSE 14) + messageSize

messageFrameSize(isServer, messageSize) ==
    IF messageSize < 126
    THEN (IF isServer THEN 2 ELSE 6) + messageSize
    ELSE IF messageSize <= UINT16_MAX
    THEN (IF isServer THEN 4 ELSE 8) + messageSize
    ELSE (IF isServer THEN 10 ELSE 14) + messageSize

----------------------------------------------------------------------------
(* The peer.  A frame is either a message a client formats with           *)
(* formatMessage<CLIENT>, or raw bytes a peer is free to send.            *)

Message(op, fin, compressed, payload, random) ==
    [raw |-> FALSE, op |-> op, fin |-> fin, compressed |-> compressed,
     payload |-> payload, random |-> random, declared |-> U64(Len(payload)),
     bytes |-> formatMessage(FALSE, payload, op, U64(Len(payload)), compressed, fin, random)]

\* the payload length a length encoding declares (network byte order)
Declared(lengthBytes) ==
    IF Len(lengthBytes) = 1
    THEN U64(lengthBytes[1] % 128)
    ELSE ValueOf(Reverse(Tail(lengthBytes)))

\* a header byte, a length encoding, a mask and a payload, masked as the wire wants
Raw(b0, lengthBytes, random, payload) ==
    [raw |-> TRUE, op |-> getOpCode(b0), fin |-> isFin(b0), compressed |-> rsv1(b0),
     payload |-> payload, random |-> random, declared |-> Declared(lengthBytes),
     bytes |-> <<b0>> \o lengthBytes \o random
               \o [i \in 1..Len(payload) |-> Xor(payload[i], random[((i - 1) % 4) + 1])]]

MaskA == <<55, 250, 33, 61>>
MaskZero == <<0, 0, 0, 0>>

\* the frames that lead a conversation on: the start of a fragmented text
\* message, and a Ping
LeadFrames ==
    { Message(TEXT, FALSE, FALSE, <<72>>, MaskA),
      Message(PING, TRUE, FALSE, <<112>>, MaskA) }

\* the frames that show one thing each
OddFrames ==
    { Message(TEXT, TRUE, FALSE, <<72, 101, 108, 108, 111>>, MaskA),
      Message(BINARY, TRUE, FALSE, <<7, 8, 9>>, MaskZero),
      Message(CONTINUATION, TRUE, FALSE, <<4, 5>>, MaskA),
      Message(CONTINUATION, FALSE, FALSE, <<6>>, MaskZero),
      Message(BINARY, FALSE, FALSE, <<1, 2, 3>>, MaskA),
      Message(TEXT, TRUE, TRUE, <<65>>, MaskA),
      Message(CLOSE, TRUE, FALSE, <<3, 232>>, MaskA),
      \* RSV2 set
      Raw(161, <<128>>, MaskA, <<>>),
      \* opcode 3, opcode 11
      Raw(131, <<128>>, MaskA, <<>>),
      Raw(139, <<128>>, MaskA, <<>>),
      \* a Ping without FIN
      Raw(9, <<128>>, MaskA, <<>>),
      \* a Ping with the 16-bit length marker
      Raw(137, <<254, 0, 126>>, MaskA, <<>>),
      \* 16-bit length 3
      Raw(130, <<254, 0, 3>>, MaskA, <<10, 11, 12>>),
      \* 64-bit length 1
      Raw(130, <<255, 0, 0, 0, 0, 0, 0, 0, 1>>, MaskA, <<13>>),
      \* 64-bit length 2^32 + 2, of which one byte is on the wire
      Raw(130, <<255, 0, 0, 0, 1, 0, 0, 0, 2>>, MaskA, <<14>>),
      \* 64-bit length 2^64 - 1
      Raw(130, <<255, 255, 255, 255, 255, 255, 255, 255, 255>>, MaskA, <<>>) }

Catalogue == LeadFrames \cup OddFrames

SeqsFromZero(S, n) == UNION { [1..k -> S] : k \in 0..n }

\* a binary message in two frames
FragmentedBinary ==
    << Message(BINARY, FALSE, FALSE, <<1, 2, 3>>, MaskA),
       Message(CONTINUATION, TRUE, FALSE, <<4, 5>>, MaskA) >>

\* up to MaxFrames frames: lead frames and then any frame, or an odd frame
\* and then a lead frame, or the binary message in two frames
Conversations ==
    { lead \o <<f>> : lead \in SeqsFromZero(LeadFrames, MaxFrames - 1), f \in Catalogue }
    \cup { <<f, g>> : f \in OddFrames, g \in LeadFrames }
    \cup { FragmentedBinary }

\* the conversations in which handleFragment may return true
Hello == Message(TEXT, TRUE, FALSE, <<72, 101, 108, 108, 111>>, MaskA)
AbortConversations == SeqsFromZero(LeadFrames \cup {Hello}, MaxAbortFrames)

RECURSIVE Flatten(_)
Flatten(ss) == IF ss = <<>> THEN <<>> ELSE Head(ss) \o Flatten(Tail(ss))

Bytes(fs) == Flatten([i \in 1..Len(fs) |-> fs[i].bytes])

\* the bytes handed to consume() so far
Fed == SubSeq(Bytes(frames), 1, Len(Bytes(frames)) - Len(wire))

\* refusePayloadLength's limit: a small one, or none
SmallLimit == U64(2)
NoLimit == <<Base - 1, Base - 1, Base - 1, Base - 1>>

----------------------------------------------------------------------------
(* The state machine *)

\* no function of namespace protocol is called
NoCall == [fn |-> "none"]

InitWith(streams, profiles) ==
    /\ wantsHead = InitialState.wantsHead
    /\ spillLength = InitialState.spillLength
    /\ spill = InitialState.spill
    /\ opStack = InitialState.opStack
    /\ opCode = InitialState.opCode
    /\ lastFin = InitialState.lastFin
    /\ remainingBytes = InitialState.remainingBytes
    /\ mask = InitialState.mask
    /\ frames \in streams
    /\ wire = Bytes(frames)
    /\ calls = <<>>
    /\ aborts = 0
    /\ crashed = FALSE
    /\ call = NoCall
    /\ returned = <<>>
    /\ \E p \in profiles : maxPayload = p[1] /\ compression = p[2]

\* an endpoint without limit and with compression negotiated, or a strict one
Profiles == { <<NoLimit, TRUE>>, <<SmallLimit, FALSE>> }

Init == InitWith(Conversations, Profiles)

Aborted(log) == \E i \in 1..Len(log) : log[i].kind = "handleFragment" /\ log[i].ret
Closed(log) == \E i \in 1..Len(log) : log[i].kind = "forceClose"

\* the transport hands the next n bytes to consume(); the abortAt-th
\* handleFragment call of this consume() returns true.  After a forceClose
\* or such a return the bytes that are left come in one more call.
Consume(n, abortAt) ==
    /\ ~crashed
    /\ n \in 1..Len(wire)
    /\ abortAt = 0 \/ (aborts < MaxAborts /\ frames \in AbortConversations)
    /\ (aborts > 0 \/ Closed(calls)) => n = Len(wire)
    /\ \E R \in {consume(State, SubSeq(wire, 1, n), abortAt, maxPayload, compression)} :
           /\ wantsHead' = R.st.wantsHead
           /\ spillLength' = R.st.spillLength
           /\ spill' = R.st.spill
           /\ opStack' = R.st.opStack
           /\ opCode' = R.st.opCode
           /\ lastFin' = R.st.lastFin
           /\ remainingBytes' = R.st.remainingBytes
           /\ mask' = R.st.mask
           /\ calls' = calls \o R.log
           /\ aborts' = IF Aborted(R.log) THEN aborts + 1 ELSE aborts
           /\ crashed' = R.crashed
    /\ wire' = SubSeq(wire, n + 1, Len(wire))
    /\ UNCHANGED <<frames, maxPayload, compression, call, returned>>

Next == \E n \in 1..Len(wire), abortAt \in 0..MaxAbortAt : Consume(n, abortAt)

Spec == Init /\ [][Next]_vars

----------------------------------------------------------------------------
(* The round trip: one message of formatMessage<CLIENT>, any payload up   *)
(* to MaxPayloadLength bytes of Pattern under one of three masks, parsed  *)
(* in chunks by an endpoint without limit whose handler never returns     *)
(* true.                                                                  *)

MaxPayloadLength == 9
Pattern == <<0, 255, 72, 128, 1, 254, 16, 85, 170, 7, 200, 33>>
MaskB == <<255, 0, 128, 1>>

RoundTrips ==
    { <<Message(op, TRUE, FALSE, SubSeq(Pattern, 1, k), random)>> :
        op \in {TEXT, BINARY}, k \in 0..MaxPayloadLength,
        random \in {MaskA, MaskB, MaskZero} }

InitRT == InitWith(RoundTrips, { <<NoLimit, TRUE>> })

NextRT == \E n \in 1..Len(wire) : Consume(n, 0)

SpecRT == InitRT /\ [][NextRT]_vars

----------------------------------------------------------------------------
(* The functions of namespace protocol, called on their own: the parser    *)
(* stays in its initial state, call holds the arguments, returned what the *)
(* functions returned.                                                     *)

InitCalls(callSet) ==
    /\ wantsHead = InitialState.wantsHead
    /\ spillLength = InitialState.spillLength
    /\ spill = InitialState.spill
    /\ opStack = InitialState.opStack
    /\ opCode = InitialState.opCode
    /\ lastFin = InitialState.lastFin
    /\ remainingBytes = InitialState.remainingBytes
    /\ mask = InitialState.mask
    /\ frames = <<>>
    /\ wire = <<>>
    /\ calls = <<>>
    /\ aborts = 0
    /\ crashed = FALSE
    /\ maxPayload = NoLimit
    /\ compression = FALSE
    /\ call \in callSet
    /\ returned = <<>>

Called(fn) == \E i \in 1..Len(returned) : returned[i].fn = fn
Returned(fn) == returned[CHOOSE i \in 1..Len(returned) : returned[i].fn = fn].value

Return(fn, value) ==
    /\ ~Called(fn)
    /\ returned' = Append(returned, [fn |-> fn, value |-> value])
    /\ UNCHANGED <<wantsHead, spillLength, spill, opStack, opCode, lastFin,
                   remainingBytes, mask, wire, frames, calls, aborts, crashed,
                   maxPayload, compression, call>>

\* the bytes of a close message: up to MaxCloseMessage bytes, the first at
\* the edges of the lead byte ranges of UTF-8, the others at the edges of
\* the ranges of the bytes that follow
MaxCloseMessage == 4
LeadBytes == {65, 127, 128, 191, 192, 193, 194, 223, 224, 225, 237, 239, 240, 243, 244, 245}
TrailBytes == {65, 128, 143, 144, 159, 160, 191, 194}

RECURSIVE Trails(_)
Trails(k) == IF k = 0 THEN {<<>>} ELSE { t \o <<b>> : t \in Trails(k - 1), b \in TrailBytes }

CloseMessages ==
    {<<>>} \cup { <<b>> \o t : b \in LeadBytes,
                              t \in UNION { Trails(k) : k \in 0..(MaxCloseMessage - 1) } }

\* the codes at the edges of the ranges parseClosePayload tells apart
CloseCodes ==
    {0, 999, 1000, 1001, 1003, 1004, 1005, 1006, 1007, 1011, 1012, 3999, 4000, 4999,
     5000, 65535}

\* a code in network byte order
CodeBytes(code) == <<code \div 256, code % 256>>

Bye == <<98, 121, 101>>
LongText == [i \in 1..16 |-> 96 + i]

\* no payload, half a code, every code with no message, with "bye" and with
\* ff fe, code 1000 with every message, and with messages of 16 bytes and more
ClosePayloads ==
    {<<>>, <<3>>}
    \cup { CodeBytes(c) \o m : c \in CloseCodes, m \in {<<>>, Bye, <<255, 254>>} }
    \cup { CodeBytes(1000) \o m : m \in CloseMessages }
    \cup { CodeBytes(1000) \o LongText \o m :
             m \in {<<>>, <<65>>, <<194, 128>>, <<128>>, <<194>>} }
    \cup { CodeBytes(1000) \o SubSeq(LongText, 1, 15) \o m : m \in {<<194, 128>>, <<194>>} }

CloseCalls ==
    { [fn |-> "parseClosePayload", src |-> s, skipUTF8Validation |-> k] :
        s \in ClosePayloads, k \in BOOLEAN }

InitClose == InitCalls(CloseCalls)

ParseClosePayload ==
    /\ call.fn = "parseClosePayload"
    /\ Return("parseClosePayload",
              parseClosePayload(call.src, Len(call.src), call.skipUTF8Validation))

NextClose == ParseClosePayload

SpecClose == InitClose /\ [][NextClose]_vars

\* the payload sizes: every size up to MaxShortSize, and the two sizes at
\* the edge of the 16-bit length
MaxShortSize == 130
Sizes == (0..MaxShortSize) \cup {UINT16_MAX, UINT16_MAX + 1}

SizeCalls ==
    { [fn |-> "formatMessage", isServer |-> r, length |-> n] : r \in BOOLEAN, n \in Sizes }

InitSize == InitCalls(SizeCalls)

MessageFrameSize ==
    /\ call.fn = "formatMessage"
    /\ Return("messageFrameSize", messageFrameSize(call.isServer, call.length))

\* formatMessage<isServer>(dst, src, length, BINARY, length, false, true)
FormatMessage ==
    /\ call.fn = "formatMessage"
    /\ Return("formatMessage",
              Len(formatMessage(call.isServer, [i \in 1..call.length |-> i % 256], BINARY,
                                U64(call.length), FALSE, TRUE, MaskA)))

NextSize == MessageFrameSize \/ FormatMessage

SpecSize == InitSize /\ [][NextSize]_vars

----------------------------------------------------------------------------
(* Reading the history *)

Callbacks == {"setCompressed", "refusePayloadLength", "handleFragment", "forceClose"}

\* what the consume() call of a step adds to calls
NewCalls == SubSeq(calls', Len(calls) + 1, Len(calls'))

\* the memory the consume() call of a step parses: the spill, then the chunk
Buffer == SubSeq(spill, 1, spillLength) \o SubSeq(wire, 1, Len(wire) - Len(wire'))

Kinds(log) == [i \in 1..Len(log) |-> log[i].kind]
Fragments(log) == SelectSeq(log, LAMBDA e : e.kind = "handleFragment")
IsPrefix(s, t) == Len(s) <= Len(t) /\ s = SubSeq(t, 1, Len(s))
Suffix(s, n) == SubSeq(s, Len(s) - n + 1, Len(s))

\* the last handleFragment call of the frame whose first one is fr[i]
EndOf(fr, i) ==
    IF \E j \in i..Len(fr) : fr[j].remaining = U32(0)
    THEN CHOOSE j \in i..Len(fr) :
            /\ fr[j].remaining = U32(0)
            /\ \A k \in i..(j - 1) : fr[k].remaining # U32(0)
    ELSE Len(fr)

RECURSIVE Join(_, _)
\* the handleFragment calls fr[i], fr[i+1], ... joined frame by frame
Join(fr, i) ==
    IF i > Len(fr)
    THEN <<>>
    ELSE LET j == EndOf(fr, i)
         IN  << [ops |-> { fr[k].op : k \in i..j },
                 fins |-> { fr[k].fin : k \in i..j },
                 data |-> Flatten([k \in 1..(j - i + 1) |-> fr[i + k - 1].data]),
                 done |-> fr[j].remaining = U32(0)] >>
             \o Join(fr, j + 1)

\* the deliveries of a log: per frame the opcode, the FIN flag and the
\* payload bytes handed over, and whether the frame's payload is complete
Deliveries(log) == Join(Fragments(log), 1)

\* a frame as RFC 6455 lets a client that negotiated compress send it,
\* with as many payload bytes as it declares
FrameOk(f, compress) ==
    /\ f.op \in {CONTINUATION, TEXT, BINARY, CLOSE, PING, PONG}
    /\ Bit(f.bytes[1], 5) = 0 /\ Bit(f.bytes[1], 4) = 0
    /\ f.compressed => (compress /\ f.op \in {TEXT, BINARY})
    /\ f.op >= CLOSE => (f.fin /\ WLe(f.declared, U64(125)))
    /\ f.declared = U64(Len(f.payload))

\* frame i comes while a fragmented message is open
MessageOpen(fs, i) ==
    \E j \in 1..(i - 1) :
        /\ fs[j].op \in {TEXT, BINARY} /\ ~fs[j].fin
        /\ \A k \in (j + 1)..(i - 1) : ~(fs[k].op = CONTINUATION /\ fs[k].fin)

WellFormed(fs, compress) ==
    \A i \in 1..Len(fs) :
        /\ FrameOk(fs[i], compress)
        /\ fs[i].op = CONTINUATION => MessageOpen(fs, i)
        /\ fs[i].op \in {TEXT, BINARY} => ~MessageOpen(fs, i)

\* refusePayloadLength answers false for every frame
NoRefusal == \A i \in 1..Len(frames) : WLe(frames[i].declared, maxPayload)

----------------------------------------------------------------------------
(* Claims *)

\* C1: chunk-insensitivity.  For a well-formed stream of frames, a handler
\* that never returns true and no refused length, the deliveries of the
\* chunks fed so far (opcode, FIN flag and joined payload bytes per frame)
\* are those of one consume() call on a fresh state with the same bytes.
C1_ChunkInsensitive ==
    (WellFormed(frames, compression) /\ NoRefusal /\ aborts = 0)
    => Deliveries(calls)
       = Deliveries(consume(InitialState, Fed, 0, maxPayload, compression).log)

\* a payload was split, and now a header is: its first bytes wait in spill
C1_Witness ==
    /\ WellFormed(frames, compression) /\ NoRefusal /\ aborts = 0
    /\ spillLength > 0
    /\ \E i \in 1..Len(calls) :
           calls[i].kind = "handleFragment" /\ calls[i].remaining # U32(0)

\* C2: masking round trip.  The frames formatMessage<CLIENT> writes are
\* delivered, however the bytes are chunked, with exactly the payload
\* formatMessage was given: frame by frame the joined bytes are the
\* payload once the frame is complete and a prefix of it before, and when
\* the wire is empty every frame has been delivered whole.
C2_RoundTrip ==
    ((\A i \in 1..Len(frames) : ~frames[i].raw)
        /\ WellFormed(frames, compression) /\ NoRefusal /\ aborts = 0)
    => LET d == Deliveries(calls)
       IN  /\ Len(d) <= Len(frames)
           /\ \A i \in 1..Len(d) :
                  IF d[i].done
                  THEN d[i].data = frames[i].payload
                  ELSE IsPrefix(d[i].data, frames[i].payload)
           /\ wire = <<>> => (Len(d) = Len(frames) /\ \A i \in 1..Len(d) : d[i].done)

\* a payload of nine bytes under a mask of four different bytes came in
\* three pieces or more
C2_Witness ==
    /\ wire = <<>>
    /\ Len(frames) = 1 /\ ~frames[1].raw
    /\ frames[1].random = MaskB /\ Len(frames[1].payload) = 9
    /\ Len(Fragments(calls)) >= 3
    /\ Deliveries(calls)[1].data = frames[1].payload

\* the conditions (a) .. (e) of C3 on the first two bytes of a frame
Violates(b0, b1, compress) ==
    \/ Bit(b0, 6) = 1 /\ ~compress
    \/ Bit(b0, 5) = 1 \/ Bit(b0, 4) = 1
    \/ (b0 % 16) \in (3..7) \cup (11..15)
    \/ (b0 % 16) >= 8 /\ Bit(b0, 7) = 0
    \/ (b0 % 16) >= 8 /\ (b1 % 128) > 125

\* C3: header-level protocol violations are fatal.  When consume() looks
\* at a header of at least SHORT_MESSAGE_HEADER bytes that has RSV1 without
\* negotiated compression, RSV2 or RSV3, an opcode in 3..7 or 11..15, a
\* control opcode without FIN, or a control opcode with a length marker
\* above 125, all it does from there on is to ask setCompressed (if RSV1 is
\* set) and to call forceClose once with "Received invalid WebSocket frame".
C3_HeaderViolationsFatal ==
    [][ \A i \in 1..Len(NewCalls) :
          (NewCalls[i].kind = "header"
              /\ Violates(NewCalls[i].data[1], NewCalls[i].data[2], compression))
          => /\ Kinds(SubSeq(NewCalls, i + 1, Len(NewCalls)))
                  = IF Bit(NewCalls[i].data[1], 6) = 1
                    THEN <<"setCompressed", "forceClose">>
                    ELSE <<"forceClose">>
             /\ NewCalls[Len(NewCalls)].reason = "Received invalid WebSocket frame" ]_vars

\* after a delivery, a control frame without FIN was looked at and closed on
C3_Witness ==
    \E i \in 2..(Len(calls) - 1) :
        /\ calls[i].kind = "header"
        /\ calls[i].op >= 8 /\ ~calls[i].fin
        /\ calls[i + 1].kind = "forceClose"
        /\ \E j \in 1..(i - 1) : calls[j].kind = "handleFragment"

\* C4: a Continuation frame whose header is parsed while opStack == -1 is
\* answered with forceClose("Received invalid WebSocket frame") and nothing
\* else: no handleFragment, and opStack, lastFin, wantsHead and
\* remainingBytes are, at forceClose and when consume() returns, what they
\* were before the frame.
C4_ContinuationWithoutMessage ==
    [][ \A i \in 1..Len(NewCalls) :
          (NewCalls[i].kind = "frame" /\ NewCalls[i].op = 0
              /\ NewCalls[i].st.opStack = -1)
          => /\ Len(NewCalls) = i + 1
             /\ NewCalls[i + 1].kind = "forceClose"
             /\ NewCalls[i + 1].reason = "Received invalid WebSocket frame"
             /\ NewCalls[i + 1].st = NewCalls[i].st
             /\ opStack' = NewCalls[i].st.opStack
             /\ lastFin' = NewCalls[i].st.lastFin
             /\ wantsHead' = NewCalls[i].st.wantsHead
             /\ remainingBytes' = NewCalls[i].st.remainingBytes ]_vars

\* a Continuation came after a whole Ping had been delivered
C4_Witness ==
    \E i \in 2..(Len(calls) - 1) :
        /\ calls[i].kind = "frame" /\ calls[i].op = 0 /\ calls[i].st.opStack = -1
        /\ calls[i + 1].kind = "forceClose"
        /\ \E j \in 1..(i - 1) : calls[j].kind = "handleFragment" /\ calls[j].op = PING

\* consumeMessage let the frame at log[i] pass: the next entry is a
\* refusePayloadLength that answered false
Accepted(log, i) ==
    /\ log[i].kind = "frame"
    /\ i < Len(log)
    /\ log[i + 1].kind = "refusePayloadLength" /\ ~log[i + 1].ret

\* before log[i] no forceClose was made and no handleFragment returned true:
\* the parser has stepped from frame to frame of the peer
InSync(log, i) ==
    \A j \in 1..(i - 1) :
        /\ log[j].kind # "forceClose"
        /\ ~(log[j].kind = "handleFragment" /\ log[j].ret)

Opens(log, j) == Accepted(log, j) /\ log[j].op \in {TEXT, BINARY} /\ ~log[j].fin
Closes(log, k) == Accepted(log, k) /\ log[k].op = CONTINUATION /\ log[k].fin

\* a data frame with FIN=0 was accepted before log[i], and the FIN=1
\* Continuation that ends its message was not
InProgress(log, i) ==
    \E j \in 1..(i - 1) :
        Opens(log, j) /\ \A k \in (j + 1)..(i - 1) : ~Closes(log, k)

\* C5 (as the specification states it): a Text or Binary frame that comes
\* while a fragmented message is in progress is answered with
\* forceClose("Received invalid WebSocket frame").
C5_Original ==
    \A i \in 1..Len(calls) :
        (calls[i].kind = "frame" /\ calls[i].op \in {TEXT, BINARY}
            /\ InProgress(calls, i) /\ InSync(calls, i))
        => /\ i < Len(calls)
           /\ calls[i + 1].kind = "forceClose"
           /\ calls[i + 1].reason = "Received invalid WebSocket frame"

\* C6: payload limit refusal.  refusePayloadLength is asked once for every
\* frame that passed the opcode-stack checks, with the frame's declared
\* length and the state as the checks left it, before anything of the frame
\* is delivered; when it answers true, consume() calls
\* forceClose("Received too big message") and returns, the frame's bytes
\* still in the buffer as they were received.
C6_PayloadLimitRefusal ==
    [][ \A i \in 1..Len(NewCalls) :
          /\ NewCalls[i].kind = "frame"
             => /\ i < Len(NewCalls)
                /\ NewCalls[i + 1].kind \in {"refusePayloadLength", "forceClose"}
          /\ NewCalls[i].kind = "refusePayloadLength"
             => /\ i > 1 /\ NewCalls[i - 1].kind = "frame"
                /\ NewCalls[i].length = NewCalls[i - 1].length
                /\ NewCalls[i].st.lastFin = NewCalls[i - 1].fin
                /\ NewCalls[i - 1].op # 0
                   => /\ NewCalls[i].st.opStack = NewCalls[i - 1].st.opStack + 1
                      /\ NewCalls[i].st.opCode[NewCalls[i].st.opStack + 1] = NewCalls[i - 1].op
          /\ NewCalls[i].kind = "handleFragment"
             => \/ i = 1 /\ ~wantsHead
                \/ i > 1 /\ NewCalls[i - 1].kind = "refusePayloadLength"
                         /\ ~NewCalls[i - 1].ret
          /\ (NewCalls[i].kind = "refusePayloadLength" /\ NewCalls[i].ret)
             => /\ Len(NewCalls) = i + 1
                /\ NewCalls[i + 1].kind = "forceClose"
                /\ NewCalls[i + 1].reason = "Received too big message"
                /\ Len(NewCalls[i + 1].data) >= SHORT_MESSAGE_HEADER
                /\ SubSeq(NewCalls[i + 1].data, 1, 2) = NewCalls[i - 1].data
                /\ NewCalls[i + 1].data = Suffix(Buffer, Len(NewCalls[i + 1].data)) ]_vars

\* after a delivery, a frame's length was refused
C6_Witness ==
    \E i \in 2..(Len(calls) - 1) :
        /\ calls[i].kind = "refusePayloadLength" /\ calls[i].ret
        /\ calls[i + 1].kind = "forceClose"
        /\ \E j \in 1..(i - 1) : calls[j].kind = "handleFragment"

\* C7 (as the specification states it): after a forceClose no callback is
\* made, in the same consume() call or in any later one.
C7_Original ==
    \A i \in 1..Len(calls) :
        calls[i].kind = "forceClose"
        => \A j \in (i + 1)..Len(calls) : calls[j].kind \notin Callbacks

\* C7 (amended): forceClose ends the consume() call that makes it: it is the
\* last thing the call does, so a call makes at most one, and neither a
\* callback nor a look at a further frame follows in that call.
C7_ForceCloseEndsCall ==
    [][ \A i \in 1..Len(NewCalls) :
          NewCalls[i].kind = "forceClose" => i = Len(NewCalls) ]_vars

\* the one consume() call that was handed a refused or invalid frame and a
\* whole frame behind it ended at its forceClose
C7_Witness ==
    /\ wire = <<>> /\ spillLength = 0 /\ aborts = 0
    /\ Len(frames) = 2 /\ frames[1] \in OddFrames
    /\ calls # <<>> /\ calls[Len(calls)].kind = "forceClose"
    /\ Cardinality({ i \in 1..Len(calls) : calls[i].kind = "header" }) = 1

\* C8: handler abort.  A handleFragment call that returns true is the last
\* thing its consume() call does: no callback follows and no further frame
\* is looked at, whether the fragment is a whole frame or the end or the
\* middle of a payload that came in pieces.
C8_HandlerAbort ==
    [][ \A i \in 1..Len(NewCalls) :
          (NewCalls[i].kind = "handleFragment" /\ NewCalls[i].ret)
          => i = Len(NewCalls) ]_vars

\* a consume() call was handed two frames, and the handler returned true
\* for the first, a whole one
C8_Witness ==
    /\ wire = <<>> /\ spillLength = 0
    /\ Len(frames) = 2
    /\ Kinds(calls) = <<"header", "frame", "refusePayloadLength", "handleFragment">>
    /\ calls[4].ret /\ calls[4].remaining = U32(0)

\* the header size the length marker of byte 1 stands for
HeaderSize(b1) ==
    IF b1 % 128 < 126 THEN SHORT_MESSAGE_HEADER
    ELSE IF b1 % 128 = 126 THEN MEDIUM_MESSAGE_HEADER ELSE LONG_MESSAGE_HEADER

\* the frame at the "frame" entry f was in the buffer to its last byte
WholeInBuffer(f) == f.remaining = U32(HeaderSize(f.data[2]) + ToNat(f.length))

\* the number of the frame at log[i], in a parser in step with the peer
FrameIndex(log, i) == Cardinality({ j \in 1..i : log[j].kind = "frame" })

\* C9 (as the specification states it): an accepted control frame is
\* delivered as one handleFragment call with its whole payload and
\* remaining == 0, however its bytes are split over consume() calls.
C9_Original ==
    \A i \in 1..Len(calls) :
        (Accepted(calls, i) /\ calls[i].op >= CLOSE /\ InSync(calls, i))
        => /\ i + 2 <= Len(calls)
           /\ calls[i + 2].kind = "handleFragment"
           /\ calls[i + 2].remaining = U32(0)
           /\ calls[i + 2].length = calls[i].length

\* C9 (amended): an accepted control frame that is in the buffer to its
\* last byte when its header is parsed is delivered as one handleFragment
\* call with its opcode, its whole payload and remaining == 0.  One whose
\* payload ends in a later chunk is delivered in pieces: the first call
\* carries the bytes that are there and remaining > 0, and the pieces
\* joined are the payload.
C9_ControlFrameDelivery ==
    \A i \in 1..Len(calls) :
        (Accepted(calls, i) /\ calls[i].op >= CLOSE /\ InSync(calls, i))
        => LET f == calls[i]
               k == FrameIndex(calls, i)
               payload == frames[k].payload
               d == Deliveries(calls)
           IN  /\ i + 2 <= Len(calls)
               /\ calls[i + 2].kind = "handleFragment"
               /\ calls[i + 2].op = f.op /\ calls[i + 2].fin
               /\ IF WholeInBuffer(f)
                  THEN /\ calls[i + 2].remaining = U32(0)
                       /\ calls[i + 2].length = f.length
                       /\ calls[i + 2].data = payload
                  ELSE /\ calls[i + 2].remaining # U32(0)
                       /\ WAdd(calls[i + 2].length, WExtend(calls[i + 2].remaining, 4))
                              = f.length
                       /\ IsPrefix(calls[i + 2].data, payload)
               /\ k <= Len(d) /\ d[k].ops = {f.op}
               /\ IF d[k].done THEN d[k].data = payload ELSE IsPrefix(d[k].data, payload)

\* a Close frame with a payload of two bytes was delivered in three calls
C9_Witness ==
    \E i \in 1..Len(calls) :
        /\ Accepted(calls, i) /\ calls[i].op = CLOSE /\ InSync(calls, Len(calls) + 1)
        /\ ~WholeInBuffer(calls[i])
        /\ Cardinality({ j \in 1..Len(calls) :
                           calls[j].kind = "handleFragment" /\ calls[j].op = CLOSE }) = 3
        /\ Deliveries(calls)[FrameIndex(calls, i)].done

\* the first entry after log[i] that ends a frame's delivery, or 0
LastFragment(log, i) ==
    IF \E j \in (i + 1)..Len(log) :
           log[j].kind = "handleFragment" /\ log[j].remaining = U32(0)
    THEN CHOOSE j \in (i + 1)..Len(log) :
            /\ log[j].kind = "handleFragment" /\ log[j].remaining = U32(0)
            /\ \A m \in (i + 1)..(j - 1) :
                   ~(log[m].kind = "handleFragment" /\ log[m].remaining = U32(0))
    ELSE 0

\* the handleFragment calls of the accepted frame at log[k]
FragmentsOf(log, k) ==
    { m \in (k + 2)..Len(log) :
        /\ log[m].kind = "handleFragment"
        /\ \A n \in (k + 2)..(m - 1) :
               log[n].kind = "handleFragment" /\ log[n].remaining # U32(0) }

\* state.opStack as the entry log[j] left it
OpStackAfter(j) == IF j < Len(calls) THEN calls[j + 1].st.opStack ELSE opStack

\* C10: control-frame transparency.  With a handler that returns false, a
\* control frame that comes while a fragmented message is in progress
\* leaves opStack, once it is delivered, at the value it had before the
\* frame, and every Continuation frame accepted after it, up to the one
\* that ends the message, is delivered with the opcode of the message's
\* first frame.
C10_ControlFrameTransparent ==
    \A i \in 1..Len(calls) :
        (Accepted(calls, i) /\ calls[i].op >= CLOSE /\ InProgress(calls, i)
            /\ InSync(calls, Len(calls) + 1))
        => /\ LastFragment(calls, i) # 0
              => OpStackAfter(LastFragment(calls, i)) = calls[i].st.opStack
           /\ \A j \in 1..(i - 1), k \in (i + 1)..Len(calls) :
                  (/\ Opens(calls, j)
                   /\ \A m \in (j + 1)..(k - 1) : ~Opens(calls, m) /\ ~Closes(calls, m)
                   /\ Accepted(calls, k) /\ calls[k].op = CONTINUATION)
                  => \A m \in FragmentsOf(calls, k) : calls[m].op = calls[j].op

\* a text message of two frames was delivered with a Ping between them
C10_Witness ==
    /\ wire = <<>> /\ aborts = 0 /\ opStack = -1
    /\ \E j, i, k \in 1..Len(calls) :
           /\ j < i /\ i < k
           /\ Opens(calls, j) /\ calls[j].op = TEXT
           /\ Accepted(calls, i) /\ calls[i].op = PING
           /\ Closes(calls, k)
           /\ \E m \in FragmentsOf(calls, k) :
                  calls[m].op = TEXT /\ calls[m].fin /\ calls[m].remaining = U32(0)

CONSUME_POST_PADDING == 4
CONSUME_PRE_PADDING == LONG_MESSAGE_HEADER - 1

\* the chunk the consume() call of a step is handed
Chunk == SubSeq(wire, 1, Len(wire) - Len(wire'))

\* the handleFragment call of a step that returned true, or 0
AbortedAt ==
    LET fr == Fragments(NewCalls)
    IN  IF \E i \in 1..Len(fr) : fr[i].ret
        THEN CHOOSE i \in 1..Len(fr) : fr[i].ret
        ELSE 0

\* the consume() call of a step, run again: low is the lowest address it
\* touched, from src, high how far behind src + length it touched, past
\* how far behind the end of the payload bytes in the buffer it unmasked
Reach == consume(State, Chunk, AbortedAt, maxPayload, compression)

\* C11 (as the specification states it): buffer bounds.  Every byte a
\* consume(src, length) call reads or writes lies in
\* [src - CONSUME_PRE_PADDING, src + length + CONSUME_POST_PADDING), and
\* the unmasker touches no more than 7 bytes behind the end of the payload
\* bytes that are in the buffer.
C11_Original ==
    [][ /\ Reach.low >= 0 - CONSUME_PRE_PADDING
        /\ Reach.high <= CONSUME_POST_PADDING
        /\ Reach.past <= 7 ]_vars

\* a well-formed UTF-8 byte sequence of one code point (Unicode, table 3-7)
Utf8Sequence(q) ==
    \/ Len(q) = 1 /\ q[1] \in 0..127
    \/ Len(q) = 2 /\ q[1] \in 194..223 /\ q[2] \in 128..191
    \/ /\ Len(q) = 3
       /\ \/ q[1] = 224 /\ q[2] \in 160..191
          \/ q[1] \in 225..236 /\ q[2] \in 128..191
          \/ q[1] = 237 /\ q[2] \in 128..159
          \/ q[1] \in 238..239 /\ q[2] \in 128..191
       /\ q[3] \in 128..191
    \/ /\ Len(q) = 4
       /\ \/ q[1] = 240 /\ q[2] \in 144..191
          \/ q[1] \in 241..243 /\ q[2] \in 128..191
          \/ q[1] = 244 /\ q[2] \in 128..143
       /\ q[3] \in 128..191 /\ q[4] \in 128..191

RECURSIVE WellFormedUtf8(_)
\* valid UTF-8: well-formed sequences, one after the other
WellFormedUtf8(s) ==
    \/ s = <<>>
    \/ \E k \in 1..4 :
           /\ k <= Len(s)
           /\ Utf8Sequence(SubSeq(s, 1, k))
           /\ WellFormedUtf8(SubSeq(s, k + 1, Len(s)))

\* the big-endian code of a close payload, and the bytes after it
CodeOf(src) == src[1] * 256 + src[2]
MessageOf(src) == SubSeq(src, 3, Len(src))

\* the close payload of at least two bytes is one the specification rejects
Rejects(src, skipValidation) ==
    \/ CodeOf(src) < 1000
    \/ CodeOf(src) > 4999
    \/ CodeOf(src) \in 1012..3999
    \/ CodeOf(src) \in 1004..1006
    \/ (~skipValidation /\ ~WellFormedUtf8(MessageOf(src)))

\* C12: parseClosePayload classification.  For length < 2 it returns code
\* 1005, a null message and length 0; for length >= 2 it returns code 1006
\* if and only if the code is < 1000, > 4999, in 1012..3999, in 1004..1006,
\* or validation is on and the bytes after the code are not valid UTF-8; in
\* every other case it returns the code read, the bytes after the first two
\* as message, and length - 2.
C12_ClosePayloadClassification ==
    Called("parseClosePayload")
    => LET r == Returned("parseClosePayload")
       IN  IF Len(call.src) < 2
           THEN r.code = 1005 /\ r.message.base = "nullptr" /\ r.length = 0
           ELSE /\ r.code = 1006 <=> Rejects(call.src, call.skipUTF8Validation)
                /\ r.code # 1006
                   => /\ r.code = CodeOf(call.src)
                      /\ r.message = [base |-> "src", offset |-> 2]
                      /\ r.length = Len(call.src) - 2

\* code 1000 with a message of one code point of four bytes was accepted
\* with validation on
C12_Witness ==
    /\ Called("parseClosePayload")
    /\ call.src = <<3, 232, 240, 144, 128, 128>> /\ ~call.skipUTF8Validation
    /\ Returned("parseClosePayload").code = 1000
    /\ Returned("parseClosePayload").length = 4

\* C13 (as the specification states it): when parseClosePayload rejects a
\* close payload, it returns code 1006, the message "Received invalid close
\* payload" and length 29.
C13_Original ==
    (Called("parseClosePayload") /\ Len(call.src) >= 2
        /\ Rejects(call.src, call.skipUTF8Validation))
    => /\ Returned("parseClosePayload").code = 1006
       /\ Returned("parseClosePayload").message.base = "Received invalid close payload"
       /\ Returned("parseClosePayload").message.offset = 0
       /\ Returned("parseClosePayload").length = 29

\* C13 (amended): when parseClosePayload rejects a close payload, it returns
\* code 1006, the message "Received invalid close payload" and the length
\* of that message, which is 30.
C13_InvalidClosePayload ==
    (Called("parseClosePayload") /\ Len(call.src) >= 2
        /\ Rejects(call.src, call.skipUTF8Validation))
    => /\ Returned("parseClosePayload").code = 1006
       /\ Returned("parseClosePayload").message.base = "Received invalid close payload"
       /\ Returned("parseClosePayload").message.offset = 0
       /\ Returned("parseClosePayload").length = 30

\* 03 e8 ff fe, a valid code before bytes that are not UTF-8, was rejected
C13_Witness ==
    /\ Called("parseClosePayload")
    /\ call.src = <<3, 232, 255, 254>> /\ ~call.skipUTF8Validation
    /\ Returned("parseClosePayload").code = 1006

\* the header size of the specification: 2, 4 or 10 bytes by the bucket of
\* the length, and four more for the mask of a client
HeaderOf(isServer, n) ==
    (IF n <= 125 THEN 2 ELSE IF n <= 65535 THEN 4 ELSE 10) + (IF isServer THEN 0 ELSE 4)

\* C14: length round trip.  For both roles and every payload size n,
\* messageFrameSize<role>(n) is the byte count formatMessage<role> returns
\* for length = reportedLength = n: n plus 2, 4 or 10 for the server and n
\* plus 6, 8 or 14 for the client.
C14_LengthRoundTrip ==
    /\ Called("messageFrameSize")
       => Returned("messageFrameSize") = call.length + HeaderOf(call.isServer, call.length)
    /\ Called("formatMessage")
       => Returned("formatMessage") = call.length + HeaderOf(call.isServer, call.length)
    /\ (Called("messageFrameSize") /\ Called("formatMessage"))
       => Returned("messageFrameSize") = Returned("formatMessage")

\* a client's frame of 65536 payload bytes was sized and formatted
C14_Witness ==
    /\ Called("messageFrameSize") /\ Called("formatMessage")
    /\ call.length = 65536 /\ ~call.isServer
    /\ Returned("formatMessage") = 65550

\* every frame was in the buffer to its last byte when its header was parsed
AllWhole == \A i \in 1..Len(calls) : calls[i].kind = "frame" => WholeInBuffer(calls[i])

\* C15 (as the specification states it): a Binary frame with FIN=0 and the
\* payload 01 02 03, followed by a Continuation frame with FIN=1 and the
\* payload 04 05, is delivered in two handleFragment calls: opcode Binary
\* with fin=false, then opcode Continuation with fin=true.
C15_Original ==
    (frames = FragmentedBinary /\ wire = <<>> /\ NoRefusal /\ aborts = 0 /\ AllWhole)
    => LET fr == Fragments(calls)
       IN  /\ Len(fr) = 2
           /\ fr[1].op = BINARY /\ ~fr[1].fin /\ fr[1].data = <<1, 2, 3>>
           /\ fr[2].op = CONTINUATION /\ fr[2].fin /\ fr[2].data = <<4, 5>>

\* C15 (amended): the two frames are delivered with the payloads 01 02 03
\* and 04 05, with fin=false and then fin=true, and both with opcode
\* Binary, the opcode of the message's first frame: in exactly two
\* handleFragment calls when each frame is in the buffer to its last byte
\* when its header is parsed, and frame by frame in pieces otherwise.
C15_FragmentedBinary ==
    (frames = FragmentedBinary /\ wire = <<>> /\ NoRefusal /\ aborts = 0)
    => LET fr == Fragments(calls)
       IN  /\ Deliveries(calls)
                = << [ops |-> {BINARY}, fins |-> {FALSE}, data |-> <<1, 2, 3>>, done |-> TRUE],
                     [ops |-> {BINARY}, fins |-> {TRUE}, data |-> <<4, 5>>, done |-> TRUE] >>
           /\ AllWhole
              => /\ Len(fr) = 2
                 /\ fr[1].op = BINARY /\ ~fr[1].fin /\ fr[1].data = <<1, 2, 3>>
                 /\ fr[1].remaining = U32(0)
                 /\ fr[2].op = BINARY /\ fr[2].fin /\ fr[2].data = <<4, 5>>
                 /\ fr[2].remaining = U32(0)

\* the two frames came in one chunk and were delivered in two calls
C15_Witness ==
    /\ frames = FragmentedBinary /\ wire = <<>> /\ NoRefusal
    /\ Kinds(calls) = <<"header", "frame", "refusePayloadLength", "handleFragment",
                        "header", "frame", "refusePayloadLength", "handleFragment">>
    /\ calls[8].st.opStack = 0 /\ opStack = -1

\* C16 (as the specification states it): at every frame boundary reached
\* without a forceClose and with a handler that returns false, opStack is -1
\* or 0: when a frame's header is about to be parsed, in the middle of a
\* buffer or between consume() calls.
C16_Original ==
    /\ \A i \in 1..Len(calls) :
           (calls[i].kind = "frame" /\ InSync(calls, i)) => calls[i].st.opStack \in {-1, 0}
    /\ (wantsHead /\ InSync(calls, Len(calls) + 1)) => opStack \in {-1, 0}

\* C17 (as the specification states it): between consume() calls
\* wantsHead is true if and only if remainingBytes is 0.
C17_Original == wantsHead <=> remainingBytes = U32(0)

\* the index in calls of the frame whose header was parsed last, or 0
LastFrame ==
    IF \E i \in 1..Len(calls) : calls[i].kind = "frame"
    THEN CHOOSE i \in 1..Len(calls) :
            calls[i].kind = "frame" /\ \A j \in (i + 1)..Len(calls) : calls[j].kind # "frame"
    ELSE 0

RECURSIVE SumOfLengths(_)
SumOfLengths(fr) == IF fr = <<>> THEN 0 ELSE Len(Head(fr).data) + SumOfLengths(Tail(fr))

\* the payload bytes of the frame parsed last that were handed over
DeliveredOfLast == SumOfLengths(Fragments(SubSeq(calls, LastFrame + 1, Len(calls))))

\* the handleFragment calls for a frame that was not whole in the buffer
Pieces == { i \in 1..Len(calls) : calls[i].kind = "handleFragment" /\ ~calls[i].st.wantsHead }

\* C17 (amended): with a handler that returns false, between consume()
\* calls: while wantsHead is false, remainingBytes is the number of payload
\* bytes of the current frame that are still to come, modulo 2^32; while
\* wantsHead is true, remainingBytes is 0 only as long as no frame's payload
\* has spanned chunks: it is never reset, and after such a frame has been
\* delivered it holds the size of the frame's last piece.
C17_RemainingBytes ==
    aborts = 0
    => /\ ~wantsHead
          => /\ LastFrame # 0
             /\ remainingBytes
                  = Trunc32(WSub(calls[LastFrame].length, U64(DeliveredOfLast)))
       /\ wantsHead
          => remainingBytes
               = IF Pieces = {}
                 THEN U32(0)
                 ELSE U32(Len(calls[CHOOSE i \in Pieces : \A j \in Pieces : j <= i].data))

\* a frame whose payload spanned chunks has been delivered to its end, and
\* remainingBytes is not 0
C17_Witness ==
    /\ wantsHead /\ remainingBytes # U32(0) /\ aborts = 0 /\ ~Closed(calls)
    /\ wire = <<>> /\ spillLength = 0
    /\ Pieces # {}

\* the call of a step ended before the loop's end: in a forceClose, or in a
\* handleFragment for a whole frame that returned true
EndsEarly ==
    /\ NewCalls # <<>>
    /\ LET last == NewCalls[Len(NewCalls)]
       IN  \/ last.kind = "forceClose"
           \/ last.kind = "handleFragment" /\ last.ret /\ last.st.wantsHead

\* the bytes the frames parsed in the call of a step took from the buffer
RECURSIVE Taken(_)
Taken(log) ==
    IF log = <<>> THEN 0
    ELSE (IF Head(log).kind = "frame"
          THEN HeaderSize(Head(log).data[2]) + ToNat(Head(log).length)
          ELSE 0) + Taken(Tail(log))

\* the bytes left in the buffer after the frames of the call of a step that
\* began in wantsHead or with the end of a frame's payload
Left == Len(Buffer) - Taken(NewCalls) - (IF wantsHead THEN 0 ELSE ToNat(remainingBytes))

\* the call of a step ran the loop to its end: the bytes left, fewer than
\* the header they begin needs, are the spill
SpilledWhatIsLeft ==
    /\ spillLength' = Left
    /\ Left > 0 => /\ spill' = Suffix(Buffer, Left)
                   /\ \/ Left < SHORT_MESSAGE_HEADER
                      \/ Left < HeaderSize(Suffix(Buffer, Left)[2])

\* C18 (as the specification states it): spillLength <= 13, spillLength > 0
\* implies wantsHead, bytes are spilled only when fewer bytes than the
\* needed header remain after the loop, and spillLength is reset to 0
\* whenever a header has been fully parsed.
C18_Original ==
    [][ /\ spillLength' <= LONG_MESSAGE_HEADER - 1
        /\ spillLength' > 0 => wantsHead'
        /\ ~crashed'
           => IF ~wantsHead' THEN spillLength' = 0
              ELSE IF EndsEarly
              THEN (\E i \in 1..Len(NewCalls) : NewCalls[i].kind = "frame") => spillLength' = 0
              ELSE SpilledWhatIsLeft ]_vars

\* C18 (amended): spillLength <= 13 and spillLength > 0 implies wantsHead;
\* a consume() call that runs its loop to the end leaves in spill exactly
\* the bytes that remain, fewer than the header they begin needs, and
\* spillLength is their number; spillLength is 0 when a frame's payload
\* goes on in the next chunk.  A call that ends in a forceClose, or in a
\* handleFragment for a whole frame that returns true, leaves spillLength
\* as the frames before that one in the buffer left it: 0 if there was one,
\* and the value it had when the call began if not.
C18_SpillInvariant ==
    [][ /\ spillLength' <= LONG_MESSAGE_HEADER - 1
        /\ spillLength' > 0 => wantsHead'
        /\ ~crashed'
           => IF ~wantsHead' THEN spillLength' = 0
              ELSE IF EndsEarly
              THEN /\ spillLength'
                        = IF \E i \in 1..(Len(NewCalls) - 1) : NewCalls[i].kind = "handleFragment"
                          THEN 0 ELSE spillLength
                   /\ spillLength' > 0 => spill' = spill
              ELSE SpilledWhatIsLeft ]_vars

\* a frame was delivered from a header that had waited in spill, and the
\* seven bytes behind it, too few for the header they begin, are the spill
C18_Witness ==
    /\ wantsHead /\ spillLength = 7 /\ aborts = 0 /\ ~Closed(calls)
    /\ spill[2] % 128 = 126
    /\ Fragments(calls) # <<>>

\* no forceClose was made, and handleFragment returned true, if it did,
\* in the middle of a payload only (remaining > 0): the frame is not over
InStep ==
    /\ ~Closed(calls)
    /\ \A i \in 1..Len(calls) :
           (calls[i].kind = "handleFragment" /\ calls[i].ret) => calls[i].remaining # U32(0)

\* every frame of the peer declares the payload it carries
Honest == \A i \in 1..Len(frames) : frames[i].declared = U64(Len(frames[i].payload))

\* the mask the peer put into the frame whose header was parsed last
FrameMask == frames[FrameIndex(calls, LastFrame)].random

\* C19 (as the specification states it): mask rotation invariant.  Whenever
\* the parser is mid-payload between consume() calls and k payload bytes of
\* the current frame have been delivered, mask[j] is the frame's mask byte
\* (j + k) mod 4, for j in 0..3.
C19_Original ==
    (~wantsHead /\ InStep /\ Honest)
    => \A j \in 0..3 : mask[j + 1] = FrameMask[((j + DeliveredOfLast) % 4) + 1]

\* the payload bytes of the accepted frame at calls[k] that were handed
\* over by the handleFragment calls up to calls[m]
DeliveredUpTo(k, m) == SumOfLengths(SubSeq(calls, k + 2, m))

\* state.wantsHead as the entry calls[m] left it
WantsHeadAfter(m) == IF m < Len(calls) THEN calls[m + 1].st.wantsHead ELSE wantsHead

\* the payload the peer put into the frame at calls[k]
PayloadOf(k) == frames[FrameIndex(calls, k)].payload

\* C20 (as the specification states it): delivery accounting.  With a
\* handler that returns false, the handleFragment calls for an accepted
\* frame that declares P payload bytes hand over consecutive slices of the
\* payload in wire order; remaining of each call is P minus the bytes
\* handed over up to and including the call; after the call with
\* remaining == 0 the parser wants a header; and once the frame's bytes have
\* all been consumed that call was made, so that the slices sum to P.
C20_Original ==
    aborts = 0
    => \A k \in 1..Len(calls) :
           (Accepted(calls, k) /\ InSync(calls, k))
           => /\ \A m \in FragmentsOf(calls, k) :
                     /\ calls[m].data
                          = SubSeq(PayloadOf(k),
                                   DeliveredUpTo(k, m) - Len(calls[m].data) + 1,
                                   DeliveredUpTo(k, m))
                     /\ WExtend(calls[m].remaining, 4)
                          = WSub(calls[k].length, U64(DeliveredUpTo(k, m)))
                     /\ calls[m].remaining = U32(0) => WantsHeadAfter(m)
              /\ (wire = <<>> /\ calls[k].length = U64(Len(PayloadOf(k))))
                 => \E m \in FragmentsOf(calls, k) :
                        /\ calls[m].remaining = U32(0)
                        /\ DeliveredUpTo(k, m) = Len(PayloadOf(k))

\* the payload of the frame at the "frame" entry f was in the buffer to
\* its last byte
PayloadPresent(f) ==
    /\ IsSmall(f.length)
    /\ f.remaining = U32(HeaderSize(f.data[2]) + ToNat(f.length))

\* payLength - (length - MESSAGE_HEADER) for the "frame" entry f, in 64 bits
StillToCome(f) ==
    WSub(WAdd(f.length, U64(HeaderSize(f.data[2]))), WExtend(f.remaining, 4))

\* C21 (as the specification states it): for an accepted frame whose
\* payload is not all in the buffer, whatever its declared length, the
\* straddle path is taken (the test payLength + header <= length does not
\* overflow), handleFragment is called with wantsHead false, and
\* remainingBytes is payLength - (length - header), without truncation.
C21_Original ==
    \A k \in 1..Len(calls) :
        (Accepted(calls, k) /\ ~PayloadPresent(calls[k]))
        => /\ ~crashed
           /\ k + 2 <= Len(calls)
           /\ calls[k + 2].kind = "handleFragment"
           /\ ~calls[k + 2].st.wantsHead
           /\ WExtend(calls[k + 2].st.remainingBytes, 4) = StillToCome(calls[k])

\* C22: opcode-stack index safety.  After any sequence of consume() calls,
\* and at every callback within them, opStack is -1, 0 or 1: the 2-bit
\* field is never decremented from -1 and never incremented from 1, either
\* of which would leave it at -2.  At every handleFragment call opStack is
\* 0 or 1 and the opcode passed is opCode[opStack], a slot that a push has
\* written.
C22_OpStackSafe ==
    /\ opStack \in {-1, 0, 1}
    /\ \A i \in 1..Len(calls) :
           /\ calls[i].st.opStack \in {-1, 0, 1}
           /\ calls[i].kind = "handleFragment"
              => /\ calls[i].st.opStack \in {0, 1}
                 /\ calls[i].st.opCode[calls[i].st.opStack + 1] # Uninit
                 /\ calls[i].op = calls[i].st.opCode[calls[i].st.opStack + 1]

\* a frame was delivered from the second slot of the stack, the stack has
\* been popped to empty since, and no byte is left on the wire
C22_Witness ==
    /\ wire = <<>>
    /\ opStack = -1
    /\ \E i \in 1..Len(calls) :
           calls[i].kind = "handleFragment" /\ calls[i].st.opStack = 1

\* C23: the state after a handler abort.  When a handleFragment call
\* returns true, that call is the last thing the consume() call does, and
\* consume() returns with the parser state exactly as it was handed to the
\* handler: an opcode is not popped though the frame has FIN, wantsHead is
\* not set where the frame ended, the mask is not rotated where it goes on,
\* spillLength and the spill are not cleared.
C23_StateAfterAbort ==
    [][ \A i \in 1..Len(NewCalls) :
            (NewCalls[i].kind = "handleFragment" /\ NewCalls[i].ret)
            => /\ i = Len(NewCalls)
               /\ Snapshot(State') = NewCalls[i].st
               /\ State' = Reach.seen ]_vars

\* a whole frame with FIN, its header come through the spill, was handed to
\* a handler that returned true: its opcode is on the stack and the spill
\* still counts the header's bytes
C23_Witness ==
    /\ calls # <<>>
    /\ calls[Len(calls)].kind = "handleFragment"
    /\ calls[Len(calls)].ret
    /\ calls[Len(calls)].fin
    /\ calls[Len(calls)].st.wantsHead
    /\ opStack = 0
    /\ spillLength > 0

====
